---- MODULE Spec2Model ----
(***************************************************************************)
(* Parameter resolution and dependency injection of starlite/request.py:   *)
(* the query-string parser, the multipart/form decoder, the connection     *)
(* parameter extractor, the kwargs builder and the recursive dependency    *)
(* resolver.                                                               *)
(***************************************************************************)
EXTENDS Integers, Sequences, FiniteSets, TLC

VARIABLES
    \* parse_query_params
    scope,            \* connection.scope: [has_query_string, pairs] (pairs = output of parse_qsl)
    query_result,     \* [done, exc, value]
    \* handle_multipart
    form_call,        \* [media_type, items, shape, type_is_upload]
    form_result,      \* [done, values_dict, returned]
    \* get_connection_parameters
    extract_call,     \* [path_params, query_params, header_params, cookies, field_name, field]
    extract_result,   \* [done, exc, parameter_name, value, lookups]
    \* resolve_signature_kwargs
    providers,        \* the provider table, in insertion order: <<[name, fields], ...>>
    signature_fields, \* the handler's field set, in declaration order
    connection,       \* [variant, method]
    stack,            \* the call stack of resolve_signature_kwargs, outermost first
    ret,              \* kwargs returned by the last finished recursive call
    status,           \* "idle" | "running" | "returned" | "raised"
    exc,              \* the exception that ended the resolution, or ""
    result,           \* the mapping the outermost call returned
    log,              \* the I/O and call events of the resolution, in order
    json_slot,        \* request._json: [set, writes, parses]
    data_media_type   \* extra["media_type"] of each field set's data field, once read

queryVars   == <<scope, query_result>>
formVars    == <<form_call, form_result>>
extractVars == <<extract_call, extract_result>>
resolveVars == <<providers, signature_fields, connection, stack, ret, status, exc,
                 result, log, json_slot, data_media_type>>
vars        == <<queryVars, formVars, extractVars, resolveVars>>

----------------------------------------------------------------------------
(* Python values. Every value is a record of the same shape, so that values *)
(* of different Python types can be compared.                               *)

PyStr(x)     == [tag |-> "str",  s |-> x, items |-> <<>>]
PyBool(b)    == [tag |-> "bool", s |-> IF b THEN "true" ELSE "false", items |-> <<>>]
PyInt(x)     == [tag |-> "int",  s |-> x, items |-> <<>>]
PyNone       == [tag |-> "none", s |-> "", items |-> <<>>]
Undefined  == [tag |-> "undefined", s |-> "", items |-> <<>>]
UploadFile(x) == [tag |-> "file", s |-> x, items |-> <<>>]
PyList(xs)   == [tag |-> "list", s |-> "", items |-> xs]

\* Python truthiness ("if param:", "not default").
Truthy(v) ==
    CASE v.tag = "str"  -> v.s # ""
      [] v.tag = "bool" -> v.s = "true"
      [] v.tag = "int"  -> v.s # "0"
      [] v.tag = "none" -> FALSE
      [] v.tag = "list" -> v.items # <<>>
      [] OTHER -> TRUE

(* A Python dict: a sequence of <<key, value>> with distinct keys, in       *)
(* insertion order.                                                         *)
DictHas(d, k)  == \E i \in 1..Len(d) : d[i][1] = k
DictGet(d, k)  == d[CHOOSE i \in 1..Len(d) : d[i][1] = k][2]
DictSet(d, k, v) ==
    IF DictHas(d, k)
    THEN [i \in 1..Len(d) |-> IF d[i][1] = k THEN <<k, v>> ELSE d[i]]
    ELSE Append(d, <<k, v>>)
DictKeys(d)    == {d[i][1] : i \in 1..Len(d)}
DictKeySeq(d)  == [i \in 1..Len(d) |-> d[i][1]]
DictValues(d)  == [i \in 1..Len(d) |-> d[i][2]]
\* dict.get(key): None when the key is absent
DictGetOrNone(d, k) == IF DictHas(d, k) THEN DictGet(d, k) ELSE PyNone

\* All sequences over S of length at most n.
SeqsUpTo(S, n) == UNION {[1..k -> S] : k \in 0..n}
\* All sequences of distinct elements of S with length at most n.
DistinctSeqs(S, n) ==
    {s \in SeqsUpTo(S, n) : \A i, j \in 1..Len(s) : i # j => s[i] # s[j]}
\* All dicts whose key set is a subset of the keys of d0 (same values, same order).
RECURSIVE SubDicts(_)
SubDicts(d0) ==
    IF d0 = <<>> THEN {<<>>}
    ELSE LET rest == SubDicts(Tail(d0))
         IN rest \cup {<<Head(d0)>> \o r : r \in rest}

----------------------------------------------------------------------------
(* Query-String Parser                                                      *)

true_values  == {"True", "true"}
false_values == {"False", "false"}

\* The value coercion at the head of _query_param_reducer.
CoerceQueryValue(value) ==
    IF value \in true_values THEN PyBool(TRUE)
    ELSE IF value \in false_values THEN PyBool(FALSE)
    ELSE PyStr(value)

\* One fold step. acc is [exc, value]; an exception raised by an earlier step
\* ends the fold.
query_param_reducer(acc, cur) ==
    IF acc.exc # "" THEN acc
    ELSE
    LET key   == cur[1]
        value == CoerceQueryValue(cur[2])
        param == DictGetOrNone(acc.value, key)
    IN  IF Truthy(param)
        THEN IF param.tag = "str"
             THEN [acc EXCEPT !.value = DictSet(@, key, PyList(<<param, value>>))]
             ELSE IF param.tag = "list"
                  THEN [acc EXCEPT !.value = DictSet(@, key, PyList(Append(param.items, value)))]
                  \* [*param, value] with param = True: a bool is not iterable
                  ELSE [acc EXCEPT !.exc = "TypeError"]
        ELSE [acc EXCEPT !.value = DictSet(@, key, value)]

RECURSIVE Reduce(_, _)
Reduce(pairs, acc) ==
    IF pairs = <<>> THEN acc
    ELSE Reduce(Tail(pairs), query_param_reducer(acc, Head(pairs)))

parse_query_params(sc) ==
    IF ~sc.has_query_string
    THEN [exc |-> "", value |-> <<>>]       \* except KeyError: return {}
    ELSE Reduce(sc.pairs, [exc |-> "", value |-> <<>>])

----------------------------------------------------------------------------
(* Body Decoder: the form branch                                            *)

\* orjson.loads on the raw form strings the model uses; ok = FALSE is a
\* JSONDecodeError.
loads(raw) ==
    CASE raw = "0"      -> [ok |-> TRUE, value |-> PyInt("0")]
      [] raw = "1"      -> [ok |-> TRUE, value |-> PyInt("1")]
      [] raw = "false"  -> [ok |-> TRUE, value |-> PyBool(FALSE)]
      [] raw = "true"   -> [ok |-> TRUE, value |-> PyBool(TRUE)]
      [] raw = "null"   -> [ok |-> TRUE, value |-> PyNone]
      [] raw = "\"\""   -> [ok |-> TRUE, value |-> PyStr("")]
      [] raw = "[]"     -> [ok |-> TRUE, value |-> PyList(<<>>)]
      [] raw = "[1]"    -> [ok |-> TRUE, value |-> PyList(<<PyInt("1")>>)]
      [] OTHER          -> [ok |-> FALSE, value |-> PyNone]

\* "if not isinstance(value, UploadFile): with suppress(JSONDecodeError): value = loads(value)"
DecodeFormValue(value) ==
    IF value.tag = "file" THEN value
    ELSE IF loads(value.s).ok THEN loads(value.s).value ELSE value

\* The body of the for loop of handle_multipart.
MultipartStep(values_dict, item) ==
    LET key   == item[1]
        value == DecodeFormValue(item[2])
        old   == DictGetOrNone(values_dict, key)
    IN  IF Truthy(old)
        THEN IF old.tag = "list"
             THEN DictSet(values_dict, key, PyList(Append(old.items, value)))
             ELSE DictSet(values_dict, key, PyList(<<old, value>>))
        ELSE DictSet(values_dict, key, value)

RECURSIVE MultipartFold(_, _)
MultipartFold(items, values_dict) ==
    IF items = <<>> THEN values_dict
    ELSE MultipartFold(Tail(items), MultipartStep(values_dict, Head(items)))

\* returned: [kind, mapping, value], kind one of "mapping", "list", "single"
handle_multipart(media_type, form_data, field) ==
    LET values_dict == MultipartFold(form_data, <<>>)
        asMapping == [kind |-> "mapping", mapping |-> values_dict, value |-> PyNone]
    IN  [values_dict |-> values_dict,
         returned |->
            IF media_type = "MULTI_PART"
            THEN IF field.shape = "SHAPE_LIST"
                 THEN [kind |-> "list", mapping |-> <<>>,
                       value |-> PyList(DictValues(values_dict))]
                 ELSE IF field.shape = "SHAPE_SINGLETON" /\ field.type_is_upload
                         /\ values_dict # <<>>
                      THEN [kind |-> "single", mapping |-> <<>>,
                            value |-> DictValues(values_dict)[1]]
                      ELSE asMapping
            ELSE asMapping]

----------------------------------------------------------------------------
(* Connection Parameter Extractor                                           *)

NoExtra == [query |-> "", header |-> "", cookie |-> "", required |-> FALSE, empty |-> TRUE]

\* The body of get_connection_parameters, with the two mappings that are tried
\* by field name given in the order they are tried. The result is
\* [exc, parameter_name, value, lookups]; lookups lists the sources read, in order.
LookupInOrder(first, firstName, second, secondName, query_params, header_params, cookies, field_name, field) ==
    LET extra   == field.extra
        default == IF field.default # Undefined THEN field.default ELSE PyNone
        Return(v, lk)  == [exc |-> "", parameter_name |-> "", value |-> v, lookups |-> lk]
        parameter_name ==
            IF extra.query # "" THEN extra.query
            ELSE IF extra.header # "" THEN extra.header
            ELSE IF extra.cookie # "" THEN extra.cookie
            ELSE ""
        sourceName ==
            IF extra.query # "" THEN "extra:query"
            ELSE IF extra.header # "" THEN "extra:header"
            ELSE IF extra.cookie # "" THEN "extra:cookie"
            ELSE ""
        source ==
            IF extra.query # "" THEN query_params
            ELSE IF extra.header # "" THEN header_params
            ELSE IF extra.cookie # "" THEN cookies
            ELSE <<>>
    IN  IF DictHas(first, field_name)
        THEN Return(DictGet(first, field_name), <<firstName>>)
        ELSE IF DictHas(second, field_name)
        THEN Return(DictGet(second, field_name), <<firstName, secondName>>)
        \* "if extra_keys:" ... "if parameter_name and source:"
        ELSE IF ~extra.empty /\ parameter_name # "" /\ source # <<>>
        THEN IF DictHas(source, parameter_name)
             THEN Return(DictGet(source, parameter_name), <<firstName, secondName, sourceName>>)
             ELSE IF extra.required /\ ~Truthy(default)
                  THEN [exc |-> "ValidationException", parameter_name |-> parameter_name,
                        value |-> PyNone, lookups |-> <<firstName, secondName, sourceName>>]
                  ELSE Return(default, <<firstName, secondName, sourceName, "default">>)
        ELSE Return(default, <<firstName, secondName, "default">>)

\* A get_connection_parameters that tries the query parameters before the path
\* parameters.
get_connection_parameters_QueryFirst(path_params, query_params, header_params, cookies, field_name, field) ==
    LookupInOrder(query_params, "query", path_params, "path", query_params, header_params, cookies, field_name, field)

get_connection_parameters(path_params, query_params, header_params, cookies, field_name, field) ==
    LookupInOrder(path_params, "path", query_params, "query", query_params, header_params, cookies, field_name, field)

----------------------------------------------------------------------------
(* Inputs of the three pure functions                                       *)

MaxPairs     == 3
MaxFormItems == 3

QueryKeys    == {"a", "b"}
QueryValues  == {"", "true", "False", "1", "x"}

FormKeys     == {"a", "b"}
FormValues   == {PyStr("0"), PyStr("false"), PyStr("null"), PyStr("[1]"), PyStr("x"),
                 UploadFile("f")}
MediaTypes   == {"MULTI_PART", "URL_ENCODED"}
Shapes       == {"SHAPE_SINGLETON", "SHAPE_LIST"}

\* The largest connection the extractor is tried on; every sub-dict of each
\* mapping is an input.
FullPathParams   == << <<"n", PyStr("path:n")>> >>
FullQueryParams  == << <<"n", PyStr("query:n")>>, <<"al", PyStr("query:al")>>,
                       <<"o", PyStr("query:o")>> >>
FullHeaderParams == << <<"al", PyStr("header:al")>>, <<"o", PyStr("header:o")>> >>
FullCookies      == << <<"al", PyStr("cookie:al")>>, <<"o", PyStr("cookie:o")>> >>
Aliases          == {"", "al"}
Defaults         == {Undefined, PyNone, PyInt("0"), PyStr("d")}
\* field.field_info.extra: empty, or what Parameter() stores
Extras ==
    {NoExtra} \cup
    {[query |-> q, header |-> h, cookie |-> c, required |-> r, empty |-> FALSE] :
        q \in Aliases, h \in Aliases, c \in Aliases, r \in BOOLEAN}

ProviderNames == {"a", "b", "data"}
FieldNames    == {"a", "b", "data", "n"}
\* Who declares a field set: the handler or a provider.
Owners        == ProviderNames \cup {"handler"}

IdleQuery ==
    /\ scope = [has_query_string |-> FALSE, pairs |-> <<>>]
    /\ query_result = [done |-> TRUE, exc |-> "", value |-> <<>>]
IdleForm ==
    /\ form_call = [media_type |-> "URL_ENCODED", items |-> <<>>,
                    shape |-> "SHAPE_SINGLETON", type_is_upload |-> FALSE]
    /\ form_result = [done |-> TRUE, values_dict |-> <<>>,
                      returned |-> [kind |-> "mapping", mapping |-> <<>>, value |-> PyNone]]
IdleExtract ==
    /\ extract_call = [path_params |-> <<>>, query_params |-> <<>>, header_params |-> <<>>,
                       cookies |-> <<>>, field_name |-> "n",
                       field |-> [default |-> Undefined, extra |-> NoExtra]]
    /\ extract_result = [done |-> TRUE, exc |-> "", parameter_name |-> "",
                         value |-> PyNone, lookups |-> <<>>]
IdleResolve ==
    /\ providers = <<>>
    /\ signature_fields = <<>>
    /\ connection = [variant |-> "http", method |-> "POST"]
    /\ stack = <<>>
    /\ ret = <<>>
    /\ status = "idle"
    /\ exc = ""
    /\ result = <<>>
    /\ log = <<>>
    /\ json_slot = [set |-> FALSE, writes |-> 0, parses |-> 0]
    /\ data_media_type = [o \in Owners |-> "unread"]

----------------------------------------------------------------------------
(* parse_query_params applied to every bounded query string                 *)

InitQuery ==
    /\ scope \in {[has_query_string |-> FALSE, pairs |-> <<>>]} \cup
                 {[has_query_string |-> TRUE, pairs |-> p] :
                     p \in SeqsUpTo(QueryKeys \X QueryValues, MaxPairs)}
    /\ query_result = [done |-> FALSE, exc |-> "", value |-> <<>>]
    /\ IdleForm /\ IdleExtract /\ IdleResolve

ParseQuery ==
    /\ ~query_result.done
    /\ LET r == parse_query_params(scope)
       IN  query_result' = [done |-> TRUE, exc |-> r.exc, value |-> r.value]
    /\ UNCHANGED <<scope, formVars, extractVars, resolveVars>>

SpecQuery == InitQuery /\ [][ParseQuery]_vars

----------------------------------------------------------------------------
(* handle_multipart applied to every bounded form                           *)

InitForm ==
    /\ form_call \in [media_type : MediaTypes,
                      items : SeqsUpTo(FormKeys \X FormValues, MaxFormItems),
                      shape : Shapes, type_is_upload : BOOLEAN]
    /\ form_result = [done |-> FALSE, values_dict |-> <<>>,
                      returned |-> [kind |-> "mapping", mapping |-> <<>>, value |-> PyNone]]
    /\ IdleQuery /\ IdleExtract /\ IdleResolve

HandleMultipart ==
    /\ ~form_result.done
    /\ LET r == handle_multipart(form_call.media_type, form_call.items,
                                 [shape |-> form_call.shape,
                                  type_is_upload |-> form_call.type_is_upload])
       IN  form_result' = [done |-> TRUE, values_dict |-> r.values_dict,
                           returned |-> r.returned]
    /\ UNCHANGED <<form_call, queryVars, extractVars, resolveVars>>

SpecForm == InitForm /\ [][HandleMultipart]_vars

----------------------------------------------------------------------------
(* get_connection_parameters applied to every bounded connection and field  *)

InitExtract ==
    /\ extract_call \in [path_params : SubDicts(FullPathParams),
                         query_params : SubDicts(FullQueryParams),
                         header_params : SubDicts(FullHeaderParams),
                         cookies : SubDicts(FullCookies),
                         field_name : {"n"},
                         field : [default : Defaults, extra : Extras]]
    /\ extract_result = [done |-> FALSE, exc |-> "", parameter_name |-> "",
                         value |-> PyNone, lookups |-> <<>>]
    /\ IdleQuery /\ IdleForm /\ IdleResolve

Extract ==
    /\ ~extract_result.done
    /\ LET c == extract_call
           r == get_connection_parameters(c.path_params, c.query_params, c.header_params,
                                          c.cookies, c.field_name, c.field)
       IN  extract_result' = [done |-> TRUE, exc |-> r.exc,
                              parameter_name |-> r.parameter_name,
                              value |-> r.value, lookups |-> r.lookups]
    /\ UNCHANGED <<extract_call, queryVars, formVars, resolveVars>>

SpecExtract == InitExtract /\ [][Extract]_vars

----------------------------------------------------------------------------
(* Kwargs Builder                                                           *)

\* What the connection of a resolution holds besides its variant and method.
ConnScope        == [has_query_string |-> TRUE, pairs |-> << <<"n", "1">> >>]
ConnPathParams   == <<>>
ConnHeaders      == << <<"o", PyStr("header:o")>> >>
ConnCookies      == <<>>
PlainField       == [default |-> Undefined, extra |-> NoExtra]
\* extra.get("media_type"): unset or JSON takes the body branch ("JSON" here), any
\* other value the form branch ("MULTI_PART" here).
DataMediaTypes   == {"JSON", "MULTI_PART"}

Event(ev, name, depth, deps) == [ev |-> ev, name |-> name, depth |-> depth, deps |-> deps]

\* get_request_data. b is the builder's state [exc, kwargs, events, slot];
\* media_type is the data field's declared media type and body_ok says whether
\* the body is valid JSON. The decoded payload is kept as a token: the resolver
\* hands it on unread.
get_request_data(b, conn, owner, depth, media_type, body_ok) ==
    IF conn.method = "GET"
    THEN [b EXCEPT !.exc = "ImproperlyConfiguredException"]
    ELSE IF media_type = "JSON"
    THEN LET read == [b EXCEPT !.events = @ \o <<Event("body", owner, depth, <<>>),
                                                  Event("json_parse", owner, depth, <<>>)>>,
                                !.slot.parses = @ + 1]
         IN  IF body_ok
             THEN [read EXCEPT !.slot.set = TRUE, !.slot.writes = @ + 1,
                               !.kwargs = DictSet(@, "data", PyStr("json_data"))]
             ELSE [read EXCEPT !.exc = "JSONDecodeError"]
    ELSE [b EXCEPT !.events = Append(@, Event("form", owner, depth, <<>>)),
                   !.kwargs = DictSet(@, "data", PyStr("form_data"))]

\* The body of the for loop of get_model_kwargs_from_connection.
BuilderStep(b, conn, owner, depth, media_type, body_ok, query, field_name) ==
    IF b.exc # "" THEN b
    ELSE CASE field_name = "state"   -> [b EXCEPT !.kwargs = DictSet(@, "state", PyStr("app.state.copy"))]
           [] field_name = "headers" -> [b EXCEPT !.kwargs = DictSet(@, "headers", PyStr("header_params"))]
           [] field_name = "cookies" -> [b EXCEPT !.kwargs = DictSet(@, "cookies", PyStr("connection.cookies"))]
           [] field_name = "query"   -> [b EXCEPT !.kwargs = DictSet(@, "query", PyStr("query_params"))]
           [] field_name = "request" ->
                IF conn.variant # "http"
                THEN [b EXCEPT !.exc = "ImproperlyConfiguredException"]
                ELSE [b EXCEPT !.kwargs = DictSet(@, "request", PyStr("connection"))]
           [] field_name = "socket" ->
                IF conn.variant # "websocket"
                THEN [b EXCEPT !.exc = "ImproperlyConfiguredException"]
                ELSE [b EXCEPT !.kwargs = DictSet(@, "socket", PyStr("connection"))]
           [] field_name = "data" ->
                IF conn.variant # "http"
                THEN [b EXCEPT !.exc = "ImproperlyConfiguredException"]
                ELSE get_request_data(b, conn, owner, depth, media_type, body_ok)
           [] OTHER ->
                LET r == get_connection_parameters(ConnPathParams, query, ConnHeaders,
                                                   ConnCookies, field_name, PlainField)
                IN  IF r.exc # "" THEN [b EXCEPT !.exc = r.exc]
                    ELSE [b EXCEPT !.kwargs = DictSet(@, field_name, r.value)]

RECURSIVE BuilderLoop(_, _, _, _, _, _, _, _)
BuilderLoop(b, conn, owner, depth, media_type, body_ok, query, fields) ==
    IF fields = <<>> THEN b
    ELSE BuilderLoop(BuilderStep(b, conn, owner, depth, media_type, body_ok, query, Head(fields)),
                     conn, owner, depth, media_type, body_ok, query, Tail(fields))

\* [exc, kwargs, events, slot]: the exception raised or the kwargs built, the
\* I/O done on the way and request._json afterwards.
get_model_kwargs_from_connection(conn, fields, owner, depth, media_type, body_ok, slot) ==
    LET q == parse_query_params(ConnScope)
        b0 == [exc |-> q.exc, kwargs |-> <<>>, events |-> <<>>, slot |-> slot]
    IN  BuilderLoop(b0, conn, owner, depth, media_type, body_ok, q.value, fields)

----------------------------------------------------------------------------
(* Dependency Resolver                                                      *)

MaxSize        == 4   \* the handler's fields, the providers and the providers' fields together
RecursionLimit == 4   \* frames of resolve_signature_kwargs the interpreter stack holds

FieldSets(n) == DistinctSeqs(FieldNames, n)
ProviderOrders == DistinctSeqs(ProviderNames, Cardinality(ProviderNames))

\* Every provider table with the given names in the given order whose providers
\* and their fields together number at most budget.
RECURSIVE TablesFor(_, _)
TablesFor(order, budget) ==
    IF order = <<>> THEN {<<>>}
    ELSE IF budget < Len(order) THEN {}
    ELSE UNION {{<<[name |-> Head(order), fields |-> f]>> \o t :
                    t \in TablesFor(Tail(order), budget - 1 - Len(f))} :
                f \in FieldSets(budget - Len(order))}

Elems(sq) == {sq[i] : i \in 1..Len(sq)}
Top == stack[Len(stack)]
Frame(owner, fields) ==
    [owner |-> owner, fields |-> fields, pi |-> 1, pc |-> "loop", dependencies |-> <<>>]

\* "for key, provider in providers.items(): if key in fields": a field-order
\* variant, the index in the table of the first field that names a provider
\* not yet resolved.
NextMatch_FieldOrder(frame) ==
    LET Pending(k) == /\ \E j \in 1..Len(providers) : providers[j].name = k
                      /\ ~DictHas(frame.dependencies, k)
        pend == SelectSeq(frame.fields, Pending)
    IN  IF pend = <<>> THEN 0
        ELSE CHOOSE j \in 1..Len(providers) : providers[j].name = pend[1]

\* "for key, provider in providers.items(): if key in fields": the index of the
\* next provider of the table, from frame.pi on, whose name is a field; 0 when
\* the loop is over.
NextMatch(frame) ==
    LET js == {j \in frame.pi..Len(providers) : providers[j].name \in Elems(frame.fields)}
    IN  IF js = {} THEN 0 ELSE CHOOSE j \in js : \A k \in js : j <= k

\* A recursion into the caller's own signature model.
CalleeFields_Same(frame, j) == frame.fields

\* get_signature_model(provider).__fields__: the field set the recursive call
\* is given.
CalleeFields(frame, j) == providers[j].fields

\* A merge that drops the dependencies.
MergeKwargs_NoDependencies(connection_kwargs, dependencies) == connection_kwargs

\* {**connection_kwargs, **dependencies}
RECURSIVE MergeKwargs(_, _)
MergeKwargs(connection_kwargs, dependencies) ==
    IF dependencies = <<>> THEN connection_kwargs
    ELSE MergeKwargs(DictSet(connection_kwargs, Head(dependencies)[1], Head(dependencies)[2]),
                     Tail(dependencies))

\* {k: v for k, v in fields.items() if k not in dependencies}
ConnectionFields(frame) ==
    LET NotDep(k) == ~DictHas(frame.dependencies, k)
    IN  SelectSeq(frame.fields, NotDep)

Init ==
    /\ signature_fields \in FieldSets(MaxSize)
    /\ providers \in UNION {TablesFor(o, MaxSize - Len(signature_fields)) :
                               o \in ProviderOrders}
    /\ connection \in {[variant |-> "websocket", method |-> "GET"],
                       [variant |-> "http", method |-> "GET"],
                       [variant |-> "http", method |-> "POST"]}
    /\ stack = <<Frame("handler", signature_fields)>>
    /\ ret = <<>>
    /\ status = "running"
    /\ exc = ""
    /\ result = <<>>
    /\ log = <<>>
    /\ json_slot = [set |-> FALSE, writes |-> 0, parses |-> 0]
    /\ data_media_type = [o \in Owners |-> "unread"]
    /\ IdleQuery /\ IdleForm /\ IdleExtract

Raise(e) ==
    /\ status' = "raised"
    /\ exc' = e

\* The loop reaches a provider that a field names: resolve_signature_kwargs calls
\* itself with that provider's signature model.
ResolveProvider ==
    /\ status = "running" /\ Top.pc = "loop"
    /\ NextMatch(Top) # 0
    /\ Len(stack) < RecursionLimit
    /\ LET j == NextMatch(Top)
       IN  /\ stack' = Append([stack EXCEPT ![Len(stack)] = [@ EXCEPT !.pi = j, !.pc = "awaiting"]],
                              Frame(providers[j].name, CalleeFields(Top, j)))
           /\ log' = Append(log, Event("resolve", providers[j].name, Len(stack), <<>>))
    /\ UNCHANGED <<providers, signature_fields, connection, ret, status, exc, result,
                   json_slot, data_media_type, queryVars, formVars, extractVars>>

\* The same call with the interpreter's stack full.
StackExhausted ==
    /\ status = "running" /\ Top.pc = "loop"
    /\ NextMatch(Top) # 0
    /\ Len(stack) >= RecursionLimit
    /\ Raise("RecursionError")
    /\ UNCHANGED <<providers, signature_fields, connection, stack, ret, result, log,
                   json_slot, data_media_type, queryVars, formVars, extractVars>>

\* The loop is over: get_model_kwargs_from_connection on the fields that are not
\* dependencies, then "return {**connection_kwargs, **dependencies}".
BuildKwargs ==
    /\ status = "running" /\ Top.pc = "loop"
    /\ NextMatch(Top) = 0
    /\ \E media_type \in DataMediaTypes, body_ok \in BOOLEAN :
         LET depth == Len(stack)
             owner == Top.owner
             probe == get_model_kwargs_from_connection(connection, ConnectionFields(Top),
                                                       owner, depth, "JSON", TRUE, json_slot)
             readsData == probe.events # <<>>
             b == get_model_kwargs_from_connection(connection, ConnectionFields(Top),
                                                   owner, depth, media_type, body_ok, json_slot)
             kwargs == MergeKwargs(b.kwargs, Top.dependencies)
         IN  /\ IF readsData
                THEN data_media_type[owner] \in {"unread", media_type}
                ELSE media_type = "JSON"
             \* a body that parsed once parses again
             /\ (readsData /\ media_type = "JSON" /\ json_slot.parses = 0) \/ body_ok
             /\ data_media_type' = IF readsData
                                   THEN [data_media_type EXCEPT ![owner] = media_type]
                                   ELSE data_media_type
             /\ json_slot' = b.slot
             /\ log' = log \o <<Event("build", owner, depth, DictKeySeq(Top.dependencies))>>
                           \o b.events
             /\ IF b.exc # ""
                THEN /\ Raise(b.exc)
                     /\ UNCHANGED <<stack, ret, result>>
                ELSE IF Len(stack) = 1
                THEN /\ status' = "returned"
                     /\ result' = kwargs
                     /\ stack' = <<>>
                     /\ UNCHANGED <<ret, exc>>
                ELSE /\ stack' = [SubSeq(stack, 1, Len(stack) - 1)
                                    EXCEPT ![Len(stack) - 1].pc = "invoke"]
                     /\ ret' = kwargs
                     /\ UNCHANGED <<status, exc, result>>
    /\ UNCHANGED <<providers, signature_fields, connection, queryVars, formVars, extractVars>>

\* "dependencies[key] = await provider(**provider_signature_model(**provider_kwargs).dict())"
InvokeProvider ==
    /\ status = "running" /\ Top.pc = "invoke"
    /\ LET name == providers[Top.pi].name
       IN  /\ stack' = [stack EXCEPT ![Len(stack)] =
                          [@ EXCEPT !.dependencies = DictSet(@, name, PyStr(name)),
                                    !.pi = @ + 1, !.pc = "loop"]]
           /\ log' = Append(log, Event("invoke", name, Len(stack), DictKeySeq(ret)))
    /\ ret' = <<>>
    /\ UNCHANGED <<providers, signature_fields, connection, status, exc, result,
                   json_slot, data_media_type, queryVars, formVars, extractVars>>

\* The provider's model validation or the provider itself raises.
ProviderRaises ==
    /\ status = "running" /\ Top.pc = "invoke"
    /\ Raise("ProviderError")
    /\ UNCHANGED <<providers, signature_fields, connection, stack, ret, result, log,
                   json_slot, data_media_type, queryVars, formVars, extractVars>>

Next ==
    \/ ResolveProvider
    \/ StackExhausted
    \/ BuildKwargs
    \/ InvokeProvider
    \/ ProviderRaises

Spec == Init /\ [][Next]_vars

----------------------------------------------------------------------------
(* Claims about the pure functions                                          *)

\* The coerced values of key k in the query string, in encounter order.
QueryOccurrences(pairs, k) ==
    LET HasKey(p) == p[1] = k
        sel == SelectSeq(pairs, HasKey)
    IN  [i \in 1..Len(sel) |-> CoerceQueryValue(sel[i][2])]

\* The decoded values of key k in the form, in encounter order.
FormOccurrences(items, k) ==
    LET HasKey(p) == p[1] = k
        sel == SelectSeq(items, HasKey)
    IN  [i \in 1..Len(sel) |-> DecodeFormValue(sel[i][2])]

\* What a mapping must hold for a key given all of its values in order.
HoldsAll(d, k, occ) ==
    IF occ = <<>> THEN ~DictHas(d, k)
    ELSE DictHas(d, k) /\ DictGet(d, k) = (IF Len(occ) = 1 THEN occ[1] ELSE PyList(occ))

\* C4: for every sequence of (key, value) pairs parse_query_params returns
\* (does not raise) a mapping in which a key that occurs once maps to its single
\* coerced value and a key that occurs n > 1 times maps to the list of all n
\* coerced values in encounter order, whatever the earlier values are.
C4_ParseKeepsEveryValue ==
    (query_result.done /\ scope.has_query_string) =>
        /\ query_result.exc = ""
        /\ \A k \in QueryKeys :
              HoldsAll(query_result.value, k, QueryOccurrences(scope.pairs, k))

\* C9: for every sequence of form entries the mapping accumulated by
\* handle_multipart maps a key that occurs once to its single decoded value and a
\* key that occurs n > 1 times to the list of all n values in encounter order,
\* also when an earlier value is falsy or is a list.
C9_MultipartKeepsEveryValue ==
    form_result.done =>
        \A k \in FormKeys :
            HoldsAll(form_result.values_dict, k, FormOccurrences(form_call.items, k))

\* The alias and the source that the extras of a field select (query, then
\* header, then cookie: the first with a truthy alias).
SelectedAlias(extra) ==
    IF extra.empty THEN ""
    ELSE IF extra.query # "" THEN extra.query
    ELSE IF extra.header # "" THEN extra.header
    ELSE extra.cookie
SelectedSource(c) ==
    IF c.field.extra.query # "" THEN c.query_params
    ELSE IF c.field.extra.header # "" THEN c.header_params
    ELSE c.cookies
\* The field name is in neither the path nor the query parameters, a truthy alias
\* is declared and it is absent from the selected source.
AliasMissing(c) ==
    /\ ~DictHas(c.path_params, c.field_name)
    /\ ~DictHas(c.query_params, c.field_name)
    /\ SelectedAlias(c.field.extra) # ""
    /\ ~DictHas(SelectedSource(c), SelectedAlias(c.field.extra))

\* C2: for every connection state (an empty source included), when the alias is
\* missing: a required field with no default raises a validation error naming
\* the alias; a field that is not required, or has a usable (set and truthy)
\* default, gets its default.
C2_MissingRequiredAliasRaises ==
    (extract_result.done /\ AliasMissing(extract_call)) =>
        LET f == extract_call.field
        IN  /\ (f.extra.required /\ f.default = Undefined) =>
                  /\ extract_result.exc = "ValidationException"
                  /\ extract_result.parameter_name = SelectedAlias(f.extra)
            /\ (~f.extra.required \/ (f.default # Undefined /\ Truthy(f.default))) =>
                  /\ extract_result.exc = ""
                  /\ extract_result.value =
                        (IF f.default = Undefined THEN PyNone ELSE f.default)

ExtraLookups == {"extra:query", "extra:header", "extra:cookie"}

\* C5: precedence is path, then query, then extras: a field name that is a path
\* parameter yields the path value even when it is also a query parameter or an
\* alias is declared; otherwise a field name that is a query parameter yields
\* that query value; an extras alias is looked up only when the field name is in
\* neither.
C5_PathThenQueryThenExtras ==
    extract_result.done =>
        LET c == extract_call
            r == extract_result
        IN  /\ DictHas(c.path_params, c.field_name) =>
                  /\ r.exc = ""
                  /\ r.value = DictGet(c.path_params, c.field_name)
                  /\ r.lookups = <<"path">>
            /\ (~DictHas(c.path_params, c.field_name)
                    /\ DictHas(c.query_params, c.field_name)) =>
                  /\ r.exc = ""
                  /\ r.value = DictGet(c.query_params, c.field_name)
                  /\ Elems(r.lookups) \cap ExtraLookups = {}
            /\ (Elems(r.lookups) \cap ExtraLookups # {}) =>
                  /\ ~DictHas(c.path_params, c.field_name)
                  /\ ~DictHas(c.query_params, c.field_name)

\* The field name is a path parameter and a query parameter, and a query alias
\* that the query string holds is declared too: the path value was returned.
C5_Witness ==
    /\ extract_result.done
    /\ DictHas(extract_call.path_params, "n")
    /\ DictHas(extract_call.query_params, "n")
    /\ extract_call.field.extra.query = "al"
    /\ DictHas(extract_call.query_params, "al")
    /\ extract_result.value = PyStr("path:n")

----------------------------------------------------------------------------
(* Claims about the resolver                                                *)

ProviderResults == {PyStr(p) : p \in ProviderNames}
IOEvents        == {"invoke", "body", "form"}
TableNames      == [j \in 1..Len(providers) |-> providers[j].name]
FieldsOf(owner) ==
    IF owner = "handler" THEN signature_fields
    ELSE providers[CHOOSE j \in 1..Len(providers) : providers[j].name = owner].fields

\* C1: a field with a reserved name is resolved by the reserved-name dispatch for
\* every provider table: a provider under the same name is not invoked for the
\* field and the result under that name is the reserved value.
C1_ReservedNameShadowsProvider ==
    /\ (status = "returned" /\ "data" \in Elems(signature_fields)) =>
          DictGet(result, "data") \notin ProviderResults
    /\ \A i \in 1..Len(stack) :
          "data" \in Elems(stack[i].fields) => ~DictHas(stack[i].dependencies, "data")

\* C3: a GET connection resolved against a field set with a data field raises a
\* configuration error, and no I/O step (body read, form read, provider
\* invocation) happens before it.
C3_GetWithDataFailsBeforeIO ==
    (status # "idle" /\ connection = [variant |-> "http", method |-> "GET"]
        /\ "data" \in Elems(signature_fields)) =>
        /\ status # "returned"
        /\ status = "raised" => exc = "ImproperlyConfiguredException"
        /\ \A i \in 1..Len(log) : log[i].ev \notin IOEvents

\* C6: during one resolution the cached parsed-body slot is written at most once
\* and the JSON body is parsed at most once, even when several field sets
\* declare a data field.
C6_BodyParsedOnce ==
    json_slot.writes <= 1 /\ json_slot.parses <= 1

\* C7: a mapping that resolve_signature_kwargs returns has exactly the keys of
\* the field set it was given, each once: for the outermost call and for every
\* recursive call.
C7_KeysAreTheFieldSet ==
    /\ status = "returned" =>
          /\ DictKeys(result) = Elems(signature_fields)
          /\ Len(result) = Len(signature_fields)
    /\ (status = "running" /\ Top.pc = "invoke") =>
          /\ DictKeys(ret) = Elems(providers[Top.pi].fields)
          /\ Len(ret) = Len(providers[Top.pi].fields)

\* The outermost call returned kwargs for a field set with a dependency field
\* and a connection field, while the table holds a provider no field names.
C7_Witness ==
    /\ status = "returned"
    /\ \E k \in DictKeys(result) : DictGet(result, k) \in ProviderResults
    /\ "n" \in DictKeys(result)
    /\ \E j \in 1..Len(providers) : providers[j].name \notin Elems(signature_fields)

\* The providers a field set matches, in the order of the provider table.
MatchedInTableOrder(fields, upto) ==
    LET InFields(k) == k \in Elems(fields)
    IN  SelectSeq(SubSeq(TableNames, 1, upto), InFields)
\* The providers a field set matches, in the declaration order of its fields.
MatchedInFieldOrder(fields) ==
    LET IsProvider(k) == k \in Elems(TableNames)
    IN  SelectSeq(fields, IsProvider)
IsPrefix(p, q) == Len(p) <= Len(q) /\ SubSeq(q, 1, Len(p)) = p

\* Every resolution a frame started was followed by that provider's invocation
\* in the same frame before the frame started the next one.
OneAtATime ==
    \A i, j \in 1..Len(log) :
        (i < j /\ log[i].ev = "resolve" /\ log[j].ev = "resolve"
            /\ log[i].depth = log[j].depth
            /\ \A m \in i..j : log[m].depth >= log[i].depth) =>
        \E m \in (i + 1)..(j - 1) :
            log[m] = Event("invoke", log[i].name, log[i].depth, log[m].deps)

\* C8 as the specification states it: the matched providers are resolved in the
\* declaration order of the field set's fields.
C8_FieldDeclarationOrder ==
    \A i \in 1..Len(stack) :
        IsPrefix(DictKeySeq(stack[i].dependencies), MatchedInFieldOrder(stack[i].fields))

\* C8, amended: the matched providers are resolved and invoked one at a time,
\* each invocation finishing before the next resolution starts, in the order of
\* the provider table; every dependency field is resolved before any
\* non-dependency field is read from the connection.
C8_ProviderTableOrder ==
    /\ \A i \in 1..Len(stack) :
          LET f == stack[i]
          IN  DictKeySeq(f.dependencies) =
                 MatchedInTableOrder(f.fields, f.pi - 1)
    /\ OneAtATime
    /\ \A i \in 1..Len(log) :
          log[i].ev = "build" =>
             log[i].deps = MatchedInTableOrder(FieldsOf(log[i].name), Len(providers))

\* The handler declares b before a, the table holds a before b, and both were
\* invoked before the handler's connection fields were read.
C8_Witness ==
    /\ Len(signature_fields) >= 2
    /\ signature_fields[1] = "b" /\ signature_fields[2] = "a"
    /\ TableNames = <<"a", "b">>
    /\ \E i \in 1..Len(log) : log[i] = Event("build", "handler", 1, <<"a", "b">>)

\* The provider graph: the providers a field set names.
Succ(fields) == Elems(fields) \cap Elems(TableNames)
RECURSIVE ReachN(_, _)
ReachN(S, n) ==
    IF n = 0 THEN S
    ELSE ReachN(S \cup UNION {Succ(FieldsOf(p)) : p \in S}, n - 1)
Reachable(fields) == ReachN(Succ(fields), Cardinality(ProviderNames))
OnCycle(p) == p \in Reachable(FieldsOf(p))
Cyclic == \E p \in Reachable(signature_fields) : OnCycle(p)
SetMax(S) == CHOOSE x \in S : \A y \in S : y <= x
RECURSIVE DepthN(_, _)
DepthN(fields, n) ==
    IF n = 0 \/ Succ(fields) = {} THEN 0
    ELSE 1 + SetMax({DepthN(FieldsOf(p), n - 1) : p \in Succ(fields)})
GraphDepth == DepthN(signature_fields, Cardinality(ProviderNames))

\* The calls of resolve_signature_kwargs a resolution of an acyclic graph makes.
RECURSIVE CallsN(_, _)
SumCalls(S, n) ==
    LET RECURSIVE Sum(_)
        Sum(T) == IF T = {} THEN 0
                  ELSE LET p == CHOOSE x \in T : TRUE
                       IN  CallsN(FieldsOf(p), n - 1) + Sum(T \ {p})
    IN  Sum(S)
CallsN(fields, n) == IF n = 0 THEN 1 ELSE 1 + SumCalls(Succ(fields), n)
Calls == CallsN(signature_fields, Cardinality(ProviderNames))

Running == status = "running"

\* C10: with an acyclic reachable provider graph the resolution terminates
\* (returns or raises) and its recursion is never deeper than the graph; with a
\* cycle in the reachable graph it never returns and no provider on a cycle is
\* ever invoked. Termination: a running resolution can always take a step, every
\* step ends it or extends the log, and the log holds at most five events for
\* each call of an acyclic graph.
C10_TerminatesIffAcyclic ==
    /\ [](~Cyclic => /\ Len(stack) <= GraphDepth + 1
                     /\ exc # "RecursionError"
                     /\ Running => ENABLED Next
                     /\ Len(log) <= 5 * Calls)
    /\ [][Running => (~Running' \/ Len(log') > Len(log))]_vars
    /\ [](Cyclic => (/\ status # "returned"
                     /\ \A i \in 1..Len(log) : log[i].ev = "invoke" => ~OnCycle(log[i].name)))

\* An acyclic chain of depth 2 was resolved to the end and returned.
C10_Witness ==
    /\ status = "returned"
    /\ ~Cyclic
    /\ GraphDepth = 2
    /\ \E i \in 1..Len(log) : log[i].ev = "invoke" /\ log[i].depth = 2

====
